---------------------------- MODULE Spec2Model ----------------------------
(***************************************************************************)
(* The App component of src/src/App.tsx as a state machine.                *)
(*                                                                         *)
(* The component owns two pieces of React state, hasProvider and wallet.   *)
(* Everything else in the model is the environment the component runs in:  *)
(* the injected provider (window.ethereum), the promises the component is  *)
(* suspended on, the browser's count of unhandled rejections and React's   *)
(* mounted/unmounted lifecycle.  Each action is one task of the            *)
(* single-threaded event loop, run to completion: a click handler up to    *)
(* its first await, or the continuation of an async function after the     *)
(* promise it awaits has been settled.                                     *)
(***************************************************************************)
EXTENDS Naturals, Sequences, FiniteSets

VARIABLES
    windowEthereum,       \* the injected provider object, or Undefined
    detection,            \* getProvider: "pending" at its await, then "done"
    hasProvider,          \* useState<boolean | null>(null)
    wallet,               \* useState(initialState): a record with accounts
    pending,              \* eth_requestAccounts calls awaiting an answer
    issued,               \* provider requests issued so far (the next id)
    unhandledRejections,  \* rejections no handler caught
    mounted,              \* whether the component is mounted
    lastEvent,            \* history: the task that produced this state
    stale,                \* history: requests pending at the last Disconnect
    chainIdInput,         \* the string handed to formatChainAsNum
    chainNum              \* what formatChainAsNum returned for it

vars == <<windowEthereum, detection, hasProvider, wallet, pending, issued,
          unhandledRejections, mounted, lastEvent, stale, chainIdInput,
          chainNum>>

-----------------------------------------------------------------------------
(* Bounds of the model. *)

\* Provider requests issued in one run.
MaxRequests == 3
\* Length of an account list the provider returns.
MaxAccounts == 2
\* Length of a string handed to formatChainAsNum.
MaxChainIdLen == 4

-----------------------------------------------------------------------------
(* Values. *)

Null == "null"
Undefined == "undefined"
EthereumObject == "ethereum"

Addr == {"0xa", "0xb"}
ChainIds == {"0x1", "0x89"}

\* The address lists a provider hands out: no address twice.
AccountLists ==
    { s \in UNION { [1..n -> Addr] : n \in 0..MaxAccounts } :
        \A i, j \in DOMAIN s : i # j => s[i] # s[j] }

NonEmptyAccountLists == { s \in AccountLists : Len(s) > 0 }

\* JavaScript's Boolean(x) for the values detection yields.
Boolean(x) == IF x = Null \/ x = Undefined THEN "false" ELSE "true"

\* JavaScript truthiness of hasProvider (null and false are falsy).
Truthy(x) == x = "true"

\* Reading property f of object w; a missing property reads undefined.
Field(w, f) == IF f \in DOMAIN w THEN w[f] ELSE Undefined

initialState == [accounts |-> <<>>]

Event(k, r, a, c) == [kind |-> k, req |-> r, accounts |-> a, chainId |-> c]


-----------------------------------------------------------------------------
(* React state setters.  React drops an update of a component that is no   *)
(* longer mounted: the setter returns and the component's state is what it *)
(* was.                                                                    *)

\* A setter that writes whether or not the component is mounted.
setHasProviderDetached(v) == hasProvider' = v

setHasProvider(v) == hasProvider' = IF mounted THEN v ELSE hasProvider

\* A setter that writes whether or not the component is mounted.
setWalletDetached(next) == wallet' = next

setWallet(next) == wallet' = IF mounted THEN next ELSE wallet

\* updateWallet keeping only the selected account.
updateWalletFirstOnly(accounts) ==
    setWallet([accounts |-> SubSeq(accounts, 1, 1)])

\* updateWallet that keeps the accounts of a wallet already connected.
updateWalletKeepFirst(accounts) ==
    setWallet(IF Len(wallet.accounts) > 0 /\ Len(accounts) > 0
              THEN wallet
              ELSE [accounts |-> accounts])

updateWallet(accounts) == setWallet([accounts |-> accounts])

-----------------------------------------------------------------------------
(* The view: what the component's render returns for the current state.    *)

None == "none"

\* Render with the button's label test inverted.
RenderLabelSwapped ==
    [ providerText |-> IF Truthy(hasProvider) THEN "DOES" ELSE "DOES NOT",
      button |-> IF Truthy(hasProvider)
                 THEN (IF Len(wallet.accounts) > 0
                       THEN "Connect MetaMask"
                       ELSE "Disconnect MetaMask")
                 ELSE None,
      accountLine |-> IF Len(wallet.accounts) > 0
                      THEN wallet.accounts[1]
                      ELSE None ]

Render ==
    [ providerText |-> IF Truthy(hasProvider) THEN "DOES" ELSE "DOES NOT",
      button |-> IF Truthy(hasProvider)
                 THEN (IF Len(wallet.accounts) > 0
                       THEN "Disconnect MetaMask"
                       ELSE "Connect MetaMask")
                 ELSE None,
      accountLine |-> IF Len(wallet.accounts) > 0
                      THEN wallet.accounts[1]
                      ELSE None ]

\* The button rendered unless hasProvider is false (null passes).
ButtonRenderedUnlessFalse == mounted /\ hasProvider # "false"

\* The button is on the page: the component is mounted and renders it.
ButtonRendered == mounted /\ Render.button # None

Connected == Len(wallet.accounts) > 0
Disconnected == Len(wallet.accounts) = 0

-----------------------------------------------------------------------------
(* Provider detection: the effect run once at mount.                       *)

\* detectEthereumProvider({ silent: true }): the provider, or null.
detectEthereumProvider ==
    IF windowEthereum = Undefined THEN Null ELSE windowEthereum

\* getProvider testing the detected value against undefined: null passes.
getProviderNotUndefined ==
    /\ detection = "pending"
    /\ detection' = "done"
    /\ setHasProvider(IF detectEthereumProvider # Undefined
                      THEN "true" ELSE "false")
    /\ lastEvent' = Event("detected", 0, <<>>, "")
    /\ UNCHANGED <<windowEthereum, wallet, pending, issued,
                   unhandledRejections, mounted>>

\* getProvider that also loads accounts once a provider is detected.
getProviderRefreshing ==
    /\ detection = "pending"
    /\ detection' = "done"
    /\ setHasProvider(Boolean(detectEthereumProvider))
    /\ IF detectEthereumProvider # Null
       THEN \E accounts \in NonEmptyAccountLists : updateWallet(accounts)
       ELSE UNCHANGED wallet
    /\ lastEvent' = Event("detected", 0, <<>>, "")
    /\ UNCHANGED <<windowEthereum, pending, issued,
                   unhandledRejections, mounted>>

\* getProvider resumes after its await and records the outcome.
getProvider ==
    /\ detection = "pending"
    /\ detection' = "done"
    /\ setHasProvider(Boolean(detectEthereumProvider))
    /\ lastEvent' = Event("detected", 0, <<>>, "")
    /\ UNCHANGED <<windowEthereum, wallet, pending, issued,
                   unhandledRejections, mounted>>

-----------------------------------------------------------------------------
(* The button's click handler and the continuations of its await.          *)

\* handleConnect whose disconnect branch also asks the provider to revoke.
handleConnectRevoking ==
    /\ ButtonRendered
    /\ IF Len(wallet.accounts) > 0
       THEN /\ issued < MaxRequests
            /\ updateWallet(<<>>)
            /\ issued' = issued + 1
            /\ pending' = pending \cup {issued + 1}
       ELSE /\ issued < MaxRequests
            /\ issued' = issued + 1
            /\ pending' = pending \cup {issued + 1}
            /\ UNCHANGED wallet
    /\ lastEvent' = Event("click", 0, <<>>, "")
    /\ UNCHANGED <<windowEthereum, detection, hasProvider,
                   unhandledRejections, mounted>>

\* A click on the button: handleConnect up to its first await.
handleConnect ==
    /\ ButtonRendered
    /\ IF Len(wallet.accounts) > 0
       THEN \* Disconnect logic
            /\ updateWallet(<<>>)
            /\ UNCHANGED <<pending, issued>>
       ELSE \* Connect logic: window.ethereum.request is called and awaited
            /\ issued < MaxRequests
            /\ issued' = issued + 1
            /\ pending' = pending \cup {issued + 1}
            /\ UNCHANGED wallet
    /\ lastEvent' = Event("click", 0, <<>>, "")
    /\ UNCHANGED <<windowEthereum, detection, hasProvider,
                   unhandledRejections, mounted>>

\* The provider resolves request r with accounts: handleConnect resumes.
handleConnectResolved(r, accounts) ==
    /\ r \in pending
    /\ pending' = pending \ {r}
    /\ updateWallet(accounts)
    /\ lastEvent' = Event("resolved", r, accounts, "")
    /\ UNCHANGED <<windowEthereum, detection, hasProvider, issued,
                   unhandledRejections, mounted>>

\* A rejection caught by a handler that resets the wallet.
handleConnectRejectedCaught(r) ==
    /\ r \in pending
    /\ pending' = pending \ {r}
    /\ setWallet(initialState)
    /\ lastEvent' = Event("rejected", r, <<>>, "")
    /\ UNCHANGED <<windowEthereum, detection, hasProvider, issued,
                   unhandledRejections, mounted>>

\* A rejection swallowed by an empty catch around the await.
handleConnectRejectedSwallowed(r) ==
    /\ r \in pending
    /\ pending' = pending \ {r}
    /\ lastEvent' = Event("rejected", r, <<>>, "")
    /\ UNCHANGED <<windowEthereum, detection, hasProvider, wallet, issued,
                   unhandledRejections, mounted>>

\* A rejection that also marks the provider as gone.
handleConnectRejectedNoProvider(r) ==
    /\ r \in pending
    /\ pending' = pending \ {r}
    /\ unhandledRejections' = unhandledRejections + 1
    /\ setHasProvider("false")
    /\ lastEvent' = Event("rejected", r, <<>>, "")
    /\ UNCHANGED <<windowEthereum, detection, wallet, issued, mounted>>

\* The provider rejects request r: the await throws, nothing catches it and
\* the promise handleConnect returned, which onClick drops, is rejected.
handleConnectRejected(r) ==
    /\ r \in pending
    /\ pending' = pending \ {r}
    /\ unhandledRejections' = unhandledRejections + 1
    /\ lastEvent' = Event("rejected", r, <<>>, "")
    /\ UNCHANGED <<windowEthereum, detection, hasProvider, wallet, issued,
                   mounted>>

-----------------------------------------------------------------------------
(* Notifications of the provider.  The component registers no listener,    *)
(* so an emitted event reaches no code of the component.                   *)

accountsChanged(accounts) ==
    /\ windowEthereum # Undefined
    /\ lastEvent' = Event("accountsChanged", 0, accounts, "")
    /\ UNCHANGED <<windowEthereum, detection, hasProvider, wallet, pending,
                   issued, unhandledRejections, mounted>>

chainChanged(chainId) ==
    /\ windowEthereum # Undefined
    /\ lastEvent' = Event("chainChanged", 0, <<>>, chainId)
    /\ UNCHANGED <<windowEthereum, detection, hasProvider, wallet, pending,
                   issued, unhandledRejections, mounted>>

-----------------------------------------------------------------------------
(* Teardown.  The effect returns no cleanup function: unmounting cancels   *)
(* neither the detection nor a request that is still awaited.              *)

\* An unmount whose cleanup abandons the requests still awaited.
UnmountCancelling ==
    /\ mounted
    /\ mounted' = FALSE
    /\ pending' = {}
    /\ lastEvent' = Event("unmount", 0, <<>>, "")
    /\ UNCHANGED <<windowEthereum, detection, hasProvider, wallet,
                   issued, unhandledRejections>>

Unmount ==
    /\ mounted
    /\ mounted' = FALSE
    /\ lastEvent' = Event("unmount", 0, <<>>, "")
    /\ UNCHANGED <<windowEthereum, detection, hasProvider, wallet, pending,
                   issued, unhandledRejections>>

-----------------------------------------------------------------------------
(* formatChainAsNum, the helper the README's view calls on wallet.chainId  *)
(* ("To get the human-readable number of the chain, we use parseInt").     *)
(* A string is a sequence of characters; parseInt is computed as           *)
(* ECMAScript defines it for a call with the string alone: a leading "0x"  *)
(* selects radix 16, otherwise radix 10; the longest prefix of digits of   *)
(* that radix is the number; no such digit gives NaN.                      *)

Chars == {"0", "1", "8", "9", "a", "x", "z"}

ChainIdStrings == UNION { [1..n -> Chars] : n \in 0..MaxChainIdLen }

Digits == <<"0", "1", "2", "3", "4", "5", "6", "7", "8", "9",
            "a", "b", "c", "d", "e", "f">>

\* The value of character c as a digit; 16 when it is no digit at all.
DigitValue(c) ==
    IF \E i \in DOMAIN Digits : Digits[i] = c
    THEN (CHOOSE i \in DOMAIN Digits : Digits[i] = c) - 1
    ELSE 16

NaN == [tag |-> "NaN", value |-> 0]
Num(n) == [tag |-> "number", value |-> n]
Unformatted == [tag |-> "none", value |-> 0]

\* Length of the longest prefix of s made of digits of radix R.
RECURSIVE DigitPrefixLen(_, _)
DigitPrefixLen(s, R) ==
    IF s = <<>> \/ DigitValue(Head(s)) >= R
    THEN 0
    ELSE 1 + DigitPrefixLen(Tail(s), R)

\* The number a sequence of radix-R digits denotes, given the value acc of
\* the digits already read.
RECURSIVE DigitsValue(_, _, _)
DigitsValue(s, R, acc) ==
    IF s = <<>>
    THEN acc
    ELSE DigitsValue(Tail(s), R, acc * R + DigitValue(Head(s)))

parseInt(s) ==
    LET hex == Len(s) >= 2 /\ s[1] = "0" /\ s[2] = "x"
        R == IF hex THEN 16 ELSE 10
        rest == IF hex THEN SubSeq(s, 3, Len(s)) ELSE s
        n == DigitPrefixLen(rest, R)
    IN  IF n = 0 THEN NaN ELSE Num(DigitsValue(SubSeq(rest, 1, n), R, 0))

formatChainAsNum(chainIdHex) == parseInt(chainIdHex)

\* The view evaluates formatChainAsNum on the chain id string it is given.
formatChainAsNumCall ==
    /\ chainNum = Unformatted
    /\ chainNum' = formatChainAsNum(chainIdInput)
    /\ UNCHANGED <<windowEthereum, detection, hasProvider, wallet, pending,
                   issued, unhandledRejections, mounted, lastEvent, stale,
                   chainIdInput>>

-----------------------------------------------------------------------------
(* The specification.                                                      *)

Init ==
    /\ windowEthereum \in {Undefined, EthereumObject}
    /\ detection = "pending"
    /\ hasProvider = Null
    /\ wallet = initialState
    /\ pending = {}
    /\ issued = 0
    /\ unhandledRejections = 0
    /\ mounted = TRUE
    /\ lastEvent = Event("mount", 0, <<>>, "")
    /\ stale = {}
    /\ chainIdInput = <<>>
    /\ chainNum = Unformatted

\* What every task of the component leaves alone, and the history of the
\* last Disconnect click: the requests that were pending when it was
\* handled, forgotten at the next Connect click.
Frame ==
    /\ stale' = IF lastEvent'.kind = "click"
                THEN (IF Connected THEN pending ELSE {})
                ELSE stale
    /\ UNCHANGED <<chainIdInput, chainNum>>

\* The provider answers request r, one way or the other.
Answer(r) ==
    /\ \/ \E accounts \in NonEmptyAccountLists :
             handleConnectResolved(r, accounts)
       \/ handleConnectRejected(r)
    /\ Frame

Next ==
    \/ getProvider /\ Frame
    \/ handleConnect /\ Frame
    \/ \E r \in pending, accounts \in NonEmptyAccountLists :
          handleConnectResolved(r, accounts) /\ Frame
    \/ \E r \in pending : handleConnectRejected(r) /\ Frame
    \/ \E accounts \in AccountLists : accountsChanged(accounts) /\ Frame
    \/ \E chainId \in ChainIds : chainChanged(chainId) /\ Frame
    \/ Unmount /\ Frame

Spec == Init /\ [][Next]_vars

\* The provider eventually answers every request it was sent.
FairSpec == Spec /\ \A r \in 1..MaxRequests : WF_vars(Answer(r))

\* formatChainAsNum applied to each string of a bounded set.
InitFormat ==
    /\ windowEthereum \in {Undefined, EthereumObject}
    /\ detection = "pending"
    /\ hasProvider = Null
    /\ wallet = initialState
    /\ pending = {}
    /\ issued = 0
    /\ unhandledRejections = 0
    /\ mounted = TRUE
    /\ lastEvent = Event("mount", 0, <<>>, "")
    /\ stale = {}
    /\ chainIdInput \in ChainIdStrings
    /\ chainNum = Unformatted

NextFormat == formatChainAsNumCall

FormatSpec == InitFormat /\ [][NextFormat]_vars

TypeOK ==
    /\ windowEthereum \in {Undefined, EthereumObject}
    /\ detection \in {"pending", "done"}
    /\ hasProvider \in {Null, "true", "false"}
    /\ wallet \in [accounts : AccountLists]
    /\ pending \subseteq 1..issued
    /\ issued \in 0..MaxRequests
    /\ unhandledRejections \in 0..issued
    /\ mounted \in BOOLEAN
    /\ stale \subseteq 1..issued
    /\ Len(chainIdInput) <= MaxChainIdLen
    /\ \A i \in DOMAIN chainIdInput : chainIdInput[i] \in Chars
    /\ chainNum.tag \in {"none", "NaN", "number"}
    /\ chainNum.value \in Nat

-----------------------------------------------------------------------------
(* Properties.  lastEvent' names the task a step ran, so an action formula *)
(* can speak of "the step in which request r was resolved with L".         *)

\* C1: with the provider present and the wallet Disconnected, the step in
\* which an eth_requestAccounts request resolves with a non-empty list L
\* makes wallet.accounts exactly L (so accounts[0] is L's first address)
\* and enters Connected.
C1_ConnectSetsAccounts ==
    [][ ( /\ mounted
          /\ Truthy(hasProvider)
          /\ Disconnected
          /\ lastEvent'.kind = "resolved"
          /\ Len(lastEvent'.accounts) > 0 )
        => ( /\ wallet'.accounts = lastEvent'.accounts
             /\ wallet'.accounts[1] = lastEvent'.accounts[1]
             /\ Connected' ) ]_vars

\* The only request issued so far has resolved with a list of two accounts
\* and the wallet holds that list.
C1_Witness ==
    /\ mounted
    /\ issued = 1
    /\ lastEvent.kind = "resolved"
    /\ Len(lastEvent.accounts) = 2
    /\ wallet.accounts = lastEvent.accounts

\* C2: a click handled while accounts is non-empty (disconnect) empties
\* accounts, issues no provider request and leaves hasProvider unchanged.
C2_DisconnectIsLocal ==
    [][ (Connected /\ lastEvent'.kind = "click")
        => ( /\ wallet'.accounts = <<>>
             /\ issued' = issued
             /\ pending' = pending
             /\ hasProvider' = hasProvider ) ]_vars

\* Two requests were issued and answered, and the last task was a click
\* that left the wallet Disconnected with nothing pending: a disconnect.
C2_Witness ==
    /\ lastEvent.kind = "click"
    /\ Disconnected
    /\ issued = 2
    /\ pending = {}

\* The view presents the wallet as disconnected / as connected.
UIShowsDisconnected ==
    /\ Render.accountLine = None
    /\ Render.button # None => Render.button = "Connect MetaMask"

UIShowsConnected ==
    /\ Render.accountLine # None
    /\ Render.button # None => Render.button = "Disconnect MetaMask"

\* C3: in every reachable state accounts is empty iff the view presents the
\* wallet as disconnected (button, when rendered, labelled "Connect
\* MetaMask", no account line), and non-empty iff it presents it as
\* connected (button labelled "Disconnect MetaMask", account line showing
\* accounts[0]).
C3_EmptyIffUIDisconnected ==
    /\ Len(wallet.accounts) = 0 <=> UIShowsDisconnected
    /\ Len(wallet.accounts) > 0 <=> UIShowsConnected
    /\ Len(wallet.accounts) > 0 => Render.accountLine = wallet.accounts[1]

\* A Connected wallet with the button on the page.
C3_Witness ==
    /\ ButtonRendered
    /\ Connected
    /\ Render.button = "Disconnect MetaMask"

C5_NoProviderNoButton ==
    windowEthereum = Undefined => (Render.button = None /\ ~ButtonRendered)

\* Detection has completed without finding a provider.
C5_Witness ==
    /\ windowEthereum = Undefined
    /\ detection = "done"
    /\ mounted
    /\ hasProvider = "false"

\* C6: the step in which an eth_requestAccounts request is rejected leaves
\* the wallet state as it was (no move to Connected or Disconnected) and
\* adds one unhandled rejection: the component does not catch it.
C6_RejectionUnhandledStateKept ==
    [][ lastEvent'.kind = "rejected"
        => ( /\ wallet' = wallet
             /\ hasProvider' = hasProvider
             /\ unhandledRejections' = unhandledRejections + 1 ) ]_vars

\* The only request issued was rejected: the wallet is still Disconnected
\* and one rejection went unhandled.
C6_Witness ==
    /\ mounted
    /\ lastEvent.kind = "rejected"
    /\ issued = 1
    /\ Disconnected
    /\ unhandledRejections = 1

\* C7: at most one provider request is outstanding in every reachable
\* state, also when Connect is clicked again before an answer.
C7_AtMostOneOutstanding == Cardinality(pending) <= 1

C9_EmptyAccountsChangedDisconnects ==
    [][ ( /\ mounted
          /\ Connected
          /\ lastEvent'.kind = "accountsChanged"
          /\ lastEvent'.accounts = <<>> )
        => ( /\ Disconnected'
             /\ Field(wallet', "balance") \in {"", Undefined}
             /\ Field(wallet', "chainId") \in {"", Undefined} ) ]_vars

\* C10: in the Connected state a chainChanged event sets the wallet's
\* chainId to the new chain id and leaves accounts and balance unchanged.
C10_ChainChangedPatchesChainId ==
    [][ ( /\ mounted
          /\ Connected
          /\ lastEvent'.kind = "chainChanged" )
        => ( /\ Field(wallet', "chainId") = lastEvent'.chainId
             /\ wallet'.accounts = wallet.accounts
             /\ Field(wallet', "balance") = Field(wallet, "balance") ) ]_vars

\* C11: at mount, when a provider is detected, the component asks it for
\* the currently authorised accounts: the step that completes detection
\* with a provider present issues a provider request.
C11_MountFetchesAccounts ==
    [][ ( /\ mounted
          /\ windowEthereum # Undefined
          /\ lastEvent'.kind = "detected" )
        => ( /\ issued' = issued + 1
             /\ pending' # pending ) ]_vars

\* C12: whenever the wallet is Connected, balance and chainId are
\* populated (present and non-empty) in the wallet state.
C12_ConnectedHasBalanceAndChain ==
    Connected => ( /\ Field(wallet, "balance") \notin {"", Undefined}
                   /\ Field(wallet, "chainId") \notin {"", Undefined} )

\* C13: hasProvider is null until detection completes, is then set once to
\* true iff a provider was found, never changes afterwards, and detection
\* raises no error.
C13_DetectionOnce ==
    /\ hasProvider = Null
    /\ [][ /\ hasProvider # Null => hasProvider' = hasProvider
           /\ hasProvider' # hasProvider
              => ( /\ lastEvent'.kind = "detected"
                   /\ detection = "pending"
                   /\ hasProvider' = IF windowEthereum # Undefined
                                     THEN "true" ELSE "false" )
           /\ detection = "done" => detection' = "done"
           /\ lastEvent'.kind = "detected"
              => unhandledRejections' = unhandledRejections ]_vars

\* Detection found a provider, and a click and a rejection later
\* hasProvider is still true.
C13_Witness ==
    /\ hasProvider = "true"
    /\ detection = "done"
    /\ lastEvent.kind = "rejected"

\* C16: every resolution of an eth_requestAccounts request replaces the
\* whole wallet state by its own list, whatever the wallet held and
\* whichever request was issued last.
C16_LastResolutionWins ==
    [][ (mounted /\ lastEvent'.kind = "resolved")
        => wallet' = [accounts |-> lastEvent'.accounts] ]_vars

\* Two requests were outstanding together; request 2 resolved first and
\* request 1, issued first, resolved last: the wallet holds its list.
C16_Witness ==
    /\ mounted
    /\ issued = 2
    /\ pending = {}
    /\ unhandledRejections = 0
    /\ lastEvent.kind = "resolved"
    /\ lastEvent.req = 1
    /\ wallet.accounts = lastEvent.accounts

\* Requests answered by a resolution so far.
ResolvedCount == issued - Cardinality(pending) - unhandledRejections

C20_IndependentState ==
    [][ /\ lastEvent'.kind = "detected"
           => (wallet' = wallet /\ wallet'.accounts = wallet.accounts)
        /\ lastEvent'.kind \in {"click", "resolved", "rejected"}
           => hasProvider' = hasProvider ]_vars

\* Requests were answered both ways after detection, and hasProvider is
\* still what detection made it.
C20_Witness ==
    /\ hasProvider = "true"
    /\ Connected
    /\ unhandledRejections >= 1
    /\ lastEvent.kind \in {"resolved", "rejected"}

\* A well-formed chain id: "0x" followed by at least one hex digit.
WellFormedChainId(s) ==
    /\ Len(s) >= 3
    /\ s[1] = "0"
    /\ s[2] = "x"
    /\ \A i \in 3..Len(s) : DigitValue(s[i]) < 16

\* The base-16 integer a well-formed chain id denotes.
HexValue(s) == DigitsValue(SubSeq(s, 3, Len(s)), 16, 0)

\* The first half of C14 alone: a well-formed chain id is parsed as its
\* base-16 integer.
WellFormedParsed ==
    (chainNum # Unformatted /\ WellFormedChainId(chainIdInput))
        => chainNum = Num(HexValue(chainIdInput))

C15_StaysDisconnectedAfterDisconnect ==
    [][ (lastEvent'.kind = "resolved" /\ lastEvent'.req \in stale)
        => Disconnected' ]_vars

\* Request r was just answered: rejected, or resolved with the wallet of
\* the mounted component holding the returned list.
Answered(r) ==
    /\ lastEvent.req = r
    /\ r \notin pending
    /\ \/ lastEvent.kind = "rejected"
       \/ (lastEvent.kind = "resolved"
           /\ (mounted => wallet.accounts = lastEvent.accounts))

\* C19: a pending request leaves pending only by being resolved or
\* rejected (no timeout, no cancellation), a Disconnected wallet stays
\* Disconnected through every step that answers no request, and, the
\* provider answering every request, each pending request is eventually
\* rejected or resolved with the wallet updated to the returned list.
C19_NoTimeoutEventualAnswer ==
    /\ [][ /\ \A r \in pending \ pending' :
                /\ lastEvent'.kind \in {"resolved", "rejected"}
                /\ lastEvent'.req = r
           /\ (pending \subseteq pending' /\ Disconnected)
                => Disconnected' ]_vars
    /\ \A r \in 1..MaxRequests :
          (r \in pending)
            ~> Answered(r)

\* Request 2 has been rejected while request 1 is still unanswered: the
\* wallet is still Disconnected.
C19_Witness ==
    /\ mounted
    /\ lastEvent.kind = "rejected"
    /\ lastEvent.req = 2
    /\ pending = {1}
    /\ Disconnected

=============================================================================
